---- MODULE Spec2Model ----
(***************************************************************************)
(* Model of sumail_project.py: a linear script that loads a CSV table,     *)
(* keeps the rows of one country, normalises them, prints summary          *)
(* statistics, aggregates by month, derives a case-fatality column and two *)
(* 7-row rolling means, saves six figures and writes a text report.        *)
(*                                                                         *)
(* A DataFrame is a sequence of row records; the date index is the `date`  *)
(* field.  Dates are day numbers of an abstract calendar whose months all  *)
(* have DaysPerMonth days.  Floating point values are exact rationals      *)
(* [kind, num, den] with the two non-finite kinds "nan" and "inf".         *)
(***************************************************************************)
EXTENDS Integers, Sequences, FiniteSets, TLC

(* ---------------- bounds of the explored inputs ---------------- *)
MaxRows == 2
MaxDay == 1
DaysPerMonth == 2
MaxNew == 1
MaxTot == 1
MaxLen == 8

(* ---------------- program constants ---------------- *)
Window == 7
NaN == -1
BadDate == -2
Target == "Afghanistan"

VARIABLES pc, fileOK, csv, df, afghanistan, monthly, case_fatality_rate,
          cases_7day_avg, deaths_7day_avg, console, report, files, error

vars == <<pc, fileOK, csv, df, afghanistan, monthly, case_fatality_rate,
          cases_7day_avg, deaths_7day_avg, console, report, files, error>>

(* ---------------- floating point values ---------------- *)
FNan == [kind |-> "nan", num |-> 0, den |-> 1]
FInf == [kind |-> "inf", num |-> 0, den |-> 1]
FNum(n, d) == [kind |-> "num", num |-> n, den |-> d]
FNone == [kind |-> "none", num |-> 0, den |-> 1]

(* a CSV cell read as a float: an empty cell is NaN *)
ToFloat(v) == IF v = NaN THEN FNan ELSE FNum(v, 1)

(* ---------------- pure helpers ---------------- *)
Row(loc, d, nc, nd, tc, td) ==
    [location |-> loc, date |-> d, new_cases |-> nc, new_deaths |-> nd,
     total_cases |-> tc, total_deaths |-> td]

(* df[df['location'] == 'Afghanistan'] : keeps the rows in table order *)
FilterCountry(t) == SelectSeq(t, LAMBDA r : r.location = Target)

(* fault variant: to_datetime(errors='coerce') never raises *)
ToDatetimeCoerce(rows) == FALSE

(* pd.to_datetime raises when any value of the column cannot be parsed *)
ToDatetimeFails(rows) == \E i \in 1..Len(rows) : rows[i].date = BadDate

(* Series.fillna(0) on one cell *)
FillNa(v) == IF v = NaN THEN 0 ELSE v

FillMissingCols(rows) ==
    [i \in 1..Len(rows) |->
        [rows[i] EXCEPT !.new_cases = FillNa(rows[i].new_cases),
                        !.new_deaths = FillNa(rows[i].new_deaths)]]

(* Series.max(), skipna: NaN only when no value is present *)
ColMax(rows, col) ==
    LET present == {rows[i][col] : i \in 1..Len(rows)} \ {NaN}
    IN IF present = {} THEN NaN
       ELSE CHOOSE m \in present : \A v \in present : v <= m

(* Series.idxmax(): index label of the FIRST position holding the maximum *)
IdxMax(rows, col) ==
    LET m == ColMax(rows, col)
        p == CHOOSE i \in 1..Len(rows) :
                 /\ rows[i][col] = m
                 /\ \A j \in 1..(i - 1) : rows[j][col] # m
    IN rows[p].date

(* ---------------- report formatting ---------------- *)
(* a printed line: literal text, a formatted number, a formatted date *)
Line(text, val, on) == [text |-> text, val |-> val, on |-> on]
NoDate == [month |-> NaN, day |-> NaN]
TextLine(text) == Line(text, FNone, NoDate)

(* f"{x:,}" of a float column value; NaN prints as nan *)
FormatComma(v) == ToFloat(v)

(* f"{x:.2f}" : the value rounded half-even to hundredths *)
Format2f(x) ==
    IF x.kind # "num" THEN x
    ELSE LET q == (x.num * 100) \div x.den
             r == (x.num * 100) % x.den
             up == (2 * r > x.den) \/ (2 * r = x.den /\ q % 2 = 1)
         IN FNum(IF up THEN q + 1 ELSE q, 100)

(* strftime('%Y-%m-%d') of an index label: calendar month and day of month *)
Strftime(d) == [month |-> d \div DaysPerMonth, day |-> d % DaysPerMonth]

(* the lines printed by "Analysis 1" once the frame is known non-empty *)
ConsoleStats(rows) ==
    << Line("First case reported on: ", FNone, Strftime(rows[1].date)),
       Line("Total cases: ", FormatComma(rows[Len(rows)].total_cases), NoDate),
       Line("Total deaths: ", FormatComma(rows[Len(rows)].total_deaths), NoDate),
       Line("Highest daily cases: ", FormatComma(ColMax(rows, "new_cases")),
            Strftime(IdxMax(rows, "new_cases"))),
       Line("Highest daily deaths: ", FormatComma(ColMax(rows, "new_deaths")),
            Strftime(IdxMax(rows, "new_deaths"))) >>

ConsoleHeader ==
    << TextLine("COVID-19 in Afghanistan - Basic Statistics"),
       TextLine("==================================================") >>

ConsoleLines(rows) == ConsoleHeader \o ConsoleStats(rows) \o << TextLine("\n") >>

(* fault variant: the file's totals read iloc[0] instead of iloc[-1] *)
FileLinesFirstRow(rows, cfr) ==
    << TextLine("COVID-19 in Afghanistan - Analysis Results"),
       TextLine("=================================================="),
       Line("First case reported on: ", FNone, Strftime(rows[1].date)),
       Line("Total cases: ", FormatComma(rows[1].total_cases), NoDate),
       Line("Total deaths: ", FormatComma(rows[1].total_deaths), NoDate),
       Line("Highest daily cases: ", FormatComma(ColMax(rows, "new_cases")),
            Strftime(IdxMax(rows, "new_cases"))),
       Line("Highest daily deaths: ", FormatComma(ColMax(rows, "new_deaths")),
            Strftime(IdxMax(rows, "new_deaths"))),
       Line("Current case fatality rate: ", Format2f(cfr[Len(cfr)]), NoDate) >>

(* the lines written to covid_analysis_results.txt *)
FileLines(rows, cfr) ==
    << TextLine("COVID-19 in Afghanistan - Analysis Results"),
       TextLine("=================================================="),
       Line("First case reported on: ", FNone, Strftime(rows[1].date)),
       Line("Total cases: ", FormatComma(rows[Len(rows)].total_cases), NoDate),
       Line("Total deaths: ", FormatComma(rows[Len(rows)].total_deaths), NoDate),
       Line("Highest daily cases: ", FormatComma(ColMax(rows, "new_cases")),
            Strftime(IdxMax(rows, "new_cases"))),
       Line("Highest daily deaths: ", FormatComma(ColMax(rows, "new_deaths")),
            Strftime(IdxMax(rows, "new_deaths"))),
       Line("Current case fatality rate: ", Format2f(cfr[Len(cfr)]), NoDate) >>

(* ---------------- monthly aggregation ---------------- *)
MonthOf(d) == d \div DaysPerMonth

(* the time grouper sorts the frame by its index (stable) before binning *)
RECURSIVE SortByDate(_)
SortByDate(rows) ==
    IF rows = << >> THEN << >>
    ELSE LET n == Len(rows)
             r == rows[n]
             s == SortByDate(SubSeq(rows, 1, n - 1))
             k == Cardinality({i \in 1..Len(s) : s[i].date <= r.date})
         IN SubSeq(s, 1, k) \o << r >> \o SubSeq(s, k + 1, Len(s))

(* fault variant: the daily columns aggregated with 'last' instead of 'sum' *)
GroupSumAsLast(g, col) == IF g = << >> THEN 0 ELSE FillNa(g[Len(g)][col])

(* 'sum' : NaN cells are skipped, an empty group sums to 0 *)
RECURSIVE GroupSum(_, _)
GroupSum(g, col) ==
    IF g = << >> THEN 0
    ELSE GroupSum(SubSeq(g, 1, Len(g) - 1), col) + FillNa(g[Len(g)][col])

(* fault variant: the cell of the last row of the group, null or not *)
GroupLastCell(g, col) == IF g = << >> THEN NaN ELSE g[Len(g)][col]

(* 'last' : the last non-null cell of the group, NaN when there is none *)
RECURSIVE GroupLast(_, _)
GroupLast(g, col) ==
    IF g = << >> THEN NaN
    ELSE IF g[Len(g)][col] # NaN THEN g[Len(g)][col]
    ELSE GroupLast(SubSeq(g, 1, Len(g) - 1), col)

(* resample('M') : one bin per month from the first to the last date *)
Resample(rows) ==
    IF rows = << >> THEN << >>
    ELSE LET s == SortByDate(rows)
             m0 == MonthOf(s[1].date)
             m1 == MonthOf(s[Len(s)].date)
         IN [k \in 1..(m1 - m0 + 1) |->
                LET m == m0 + k - 1
                    g == SelectSeq(s, LAMBDA r : MonthOf(r.date) = m)
                IN [month |-> m,
                    new_cases |-> GroupSum(g, "new_cases"),
                    new_deaths |-> GroupSum(g, "new_deaths"),
                    total_cases |-> GroupLast(g, "total_cases"),
                    total_deaths |-> GroupLast(g, "total_deaths")]]

(* ---------------- case fatality rate ---------------- *)
(* (total_deaths / total_cases) * 100 in IEEE arithmetic *)
FatalityRate(td, tc) ==
    IF td = NaN \/ tc = NaN THEN FNan
    ELSE IF tc = 0 THEN (IF td = 0 THEN FNan ELSE FInf)
    ELSE FNum(td * 100, tc)

FatalityColumn(rows) ==
    [i \in 1..Len(rows) |-> FatalityRate(rows[i].total_deaths, rows[i].total_cases)]

(* ---------------- rolling mean ---------------- *)
(* rolling(window=7): running sum and running count of the non-null cells  *)
(* of the trailing window, adding the entering cell, removing the leaving  *)
RECURSIVE RollSum(_, _, _)
RollSum(rows, col, i) ==
    IF i = 0 THEN 0
    ELSE RollSum(rows, col, i - 1) + FillNa(rows[i][col])
         - (IF i > Window THEN FillNa(rows[i - Window][col]) ELSE 0)

RECURSIVE RollCount(_, _, _)
RollCount(rows, col, i) ==
    IF i = 0 THEN 0
    ELSE RollCount(rows, col, i - 1)
         + (IF rows[i][col] # NaN THEN 1 ELSE 0)
         - (IF i > Window /\ rows[i - Window][col] # NaN THEN 1 ELSE 0)

(* fault variant: rolling(window=7, min_periods=1) averages partial windows *)
RollingMeanPartial(rows, col) ==
    [i \in 1..Len(rows) |->
        IF RollCount(rows, col, i) >= 1
        THEN FNum(RollSum(rows, col, i), RollCount(rows, col, i))
        ELSE FNan]

(* .mean() with min_periods defaulting to the window size *)
RollingMean(rows, col) ==
    [i \in 1..Len(rows) |->
        IF RollCount(rows, col, i) >= Window
        THEN FNum(RollSum(rows, col, i), RollCount(rows, col, i))
        ELSE FNan]

(* ---------------- input tables ---------------- *)
TotValsZ == {NaN} \cup (0..MaxTot)

OtherRow == Row("Albania", 0, NaN, NaN, NaN, NaN)
BadRow == Row(Target, BadDate, NaN, NaN, NaN, NaN)

(* (country, date) identifies a row of the data set *)
DistinctDates(t) ==
    \A i, j \in 1..Len(t) :
        (i < j /\ t[i].location = t[j].location /\ t[i].date # BadDate)
            => t[i].date # t[j].date

(* tables present in every explored family: other countries, unreadable dates *)
SeedTables == { << >>, << OtherRow >>, << BadRow >> }

(* small tables, any row order, every column either empty or filled *)
GeneralRows ==
    {OtherRow, BadRow} \cup
    { Row(Target, d, nc, nd, tc, td) :
        d \in 0..MaxDay, nc \in {NaN, MaxNew}, nd \in {NaN, MaxNew},
        tc \in {NaN, MaxTot}, td \in {NaN, MaxTot} }

(* tables over three months (two days of the first month, the first days   *)
(* of the next two), one pair of columns filled                            *)
MonthlyDays == {0, 1, DaysPerMonth, 2 * DaysPerMonth}

MonthlyRows ==
    { Row(Target, d, nc, NaN, tc, NaN) :
        d \in MonthlyDays, nc \in {NaN, MaxNew}, tc \in TotValsZ }
    \cup
    { Row(Target, d, NaN, nd, NaN, td) :
        d \in MonthlyDays, nd \in {NaN, MaxNew}, td \in TotValsZ }

SameColumns(t) ==
    \/ \A i \in 1..Len(t) : t[i].new_deaths = NaN /\ t[i].total_deaths = NaN
    \/ \A i \in 1..Len(t) : t[i].new_cases = NaN /\ t[i].total_cases = NaN

(* tables whose cumulative columns include zero *)
RateRows ==
    { Row(Target, d, NaN, NaN, tc, td) :
        d \in 0..MaxDay, tc \in TotValsZ, td \in TotValsZ }

(* long daily tables, one of the two daily columns filled; consecutive    *)
(* days (st = 1) or one row every DaysPerMonth days                        *)
DailyTable(n, st, col, v) ==
    [i \in 1..n |->
        IF col = "new_cases"
        THEN Row(Target, (i - 1) * st, v[i], NaN, NaN, NaN)
        ELSE Row(Target, (i - 1) * st, NaN, v[i], NaN, NaN)]

(* ---------------- initial states ---------------- *)
Start(ok, t) ==
    /\ pc = "load"
    /\ fileOK = ok
    /\ csv = t
    /\ df = << >>
    /\ afghanistan = << >>
    /\ monthly = << >>
    /\ case_fatality_rate = << >>
    /\ cases_7day_avg = << >>
    /\ deaths_7day_avg = << >>
    /\ console = << >>
    /\ report = << >>
    /\ files = {}
    /\ error = "none"

InitSeed == \E ok \in BOOLEAN : \E t \in SeedTables : Start(ok, t)

Init ==
    \/ InitSeed
    \/ \E n \in 0..MaxRows : \E t \in [1..n -> GeneralRows] :
          DistinctDates(t) /\ Start(TRUE, t)

InitMonthly ==
    \/ InitSeed
    \/ \E n \in 0..MaxRows : \E t \in [1..n -> MonthlyRows] :
          DistinctDates(t) /\ SameColumns(t) /\ Start(TRUE, t)

InitRate ==
    \/ InitSeed
    \/ \E n \in 0..MaxRows : \E t \in [1..n -> RateRows] :
          DistinctDates(t) /\ Start(TRUE, t)

InitDaily ==
    \/ InitSeed
    \/ \E n \in 0..MaxLen : \E st \in {1, DaysPerMonth} :
          \E col \in {"new_cases", "new_deaths"} :
             \E v \in [1..n -> {NaN, MaxNew}] :
                Start(TRUE, DailyTable(n, st, col, v))

(* ---------------- the script, one action per step ---------------- *)
Abort(e) == pc' = "aborted" /\ error' = e

(* line 7: pd.read_csv *)
LoadData ==
    /\ pc = "load" /\ fileOK
    /\ df' = csv
    /\ pc' = "filter"
    /\ UNCHANGED <<fileOK, csv, afghanistan, monthly, case_fatality_rate,
                   cases_7day_avg, deaths_7day_avg, console, report, files, error>>

LoadDataFails ==
    /\ pc = "load" /\ ~fileOK
    /\ Abort("FileNotFoundError")
    /\ UNCHANGED <<fileOK, csv, df, afghanistan, monthly, case_fatality_rate,
                   cases_7day_avg, deaths_7day_avg, console, report, files>>

(* line 10 *)
Filter ==
    /\ pc = "filter"
    /\ afghanistan' = FilterCountry(df)
    /\ pc' = "to_datetime"
    /\ UNCHANGED <<fileOK, csv, df, monthly, case_fatality_rate,
                   cases_7day_avg, deaths_7day_avg, console, report, files, error>>

(* line 13 *)
ConvertDate ==
    /\ pc = "to_datetime" /\ ~ToDatetimeFails(afghanistan)
    /\ pc' = "set_index"
    /\ UNCHANGED <<fileOK, csv, df, afghanistan, monthly, case_fatality_rate,
                   cases_7day_avg, deaths_7day_avg, console, report, files, error>>

ConvertDateFails ==
    /\ pc = "to_datetime" /\ ToDatetimeFails(afghanistan)
    /\ Abort("ValueError")
    /\ UNCHANGED <<fileOK, csv, df, afghanistan, monthly, case_fatality_rate,
                   cases_7day_avg, deaths_7day_avg, console, report, files>>

(* line 16: the date column becomes the index, row order is kept *)
SetIndex ==
    /\ pc = "set_index"
    /\ pc' = "fillna"
    /\ UNCHANGED <<fileOK, csv, df, afghanistan, monthly, case_fatality_rate,
                   cases_7day_avg, deaths_7day_avg, console, report, files, error>>

(* lines 19-20 *)
FillMissing ==
    /\ pc = "fillna"
    /\ afghanistan' = FillMissingCols(afghanistan)
    /\ pc' = "analysis1"
    /\ UNCHANGED <<fileOK, csv, df, monthly, case_fatality_rate,
                   cases_7day_avg, deaths_7day_avg, console, report, files, error>>

(* lines 23-30 *)
Analysis1 ==
    /\ pc = "analysis1" /\ afghanistan # << >>
    /\ console' = console \o ConsoleLines(afghanistan)
    /\ pc' = "analysis2"
    /\ UNCHANGED <<fileOK, csv, df, afghanistan, monthly, case_fatality_rate,
                   cases_7day_avg, deaths_7day_avg, report, files, error>>

(* lines 23-25 on an empty frame: index[0] raises after the header is out *)
Analysis1Fails ==
    /\ pc = "analysis1" /\ afghanistan = << >>
    /\ console' = console \o ConsoleHeader
    /\ Abort("IndexError")
    /\ UNCHANGED <<fileOK, csv, df, afghanistan, monthly, case_fatality_rate,
                   cases_7day_avg, deaths_7day_avg, report, files>>

(* lines 33-38 *)
Analysis2 ==
    /\ pc = "analysis2"
    /\ monthly' = Resample(afghanistan)
    /\ pc' = "visualization1"
    /\ UNCHANGED <<fileOK, csv, df, afghanistan, case_fatality_rate,
                   cases_7day_avg, deaths_7day_avg, console, report, files, error>>

SaveFig(at, name, next) ==
    /\ pc = at
    /\ files' = files \cup {name}
    /\ pc' = next
    /\ UNCHANGED <<fileOK, csv, df, afghanistan, monthly, case_fatality_rate,
                   cases_7day_avg, deaths_7day_avg, console, report, error>>

(* lines 41-55 *)
Visualization1 == SaveFig("visualization1", "daily_cases_deaths.png", "visualization2")

(* lines 58-74 *)
Visualization2 == SaveFig("visualization2", "monthly_cases_deaths.png", "visualization3")

(* lines 77-87 *)
Visualization3 == SaveFig("visualization3", "total_cases_deaths.png", "visualization4")

(* lines 90-100 *)
Visualization4 ==
    /\ pc = "visualization4"
    /\ case_fatality_rate' = FatalityColumn(afghanistan)
    /\ files' = files \cup {"fatality_rate.png"}
    /\ pc' = "visualization5"
    /\ UNCHANGED <<fileOK, csv, df, afghanistan, monthly,
                   cases_7day_avg, deaths_7day_avg, console, report, error>>

(* lines 103-120 *)
Visualization5 == SaveFig("visualization5", "stringency_vs_cases.png", "analysis3")

(* lines 124-125 *)
Analysis3 ==
    /\ pc = "analysis3"
    /\ cases_7day_avg' = RollingMean(afghanistan, "new_cases")
    /\ deaths_7day_avg' = RollingMean(afghanistan, "new_deaths")
    /\ pc' = "visualization6"
    /\ UNCHANGED <<fileOK, csv, df, afghanistan, monthly, case_fatality_rate,
                   console, report, files, error>>

(* lines 128-138 *)
Visualization6 == SaveFig("visualization6", "covid_waves.png", "save_results")

(* lines 141-149 *)
SaveResults ==
    /\ pc = "save_results"
    /\ report' = FileLines(afghanistan, case_fatality_rate)
    /\ files' = files \cup {"covid_analysis_results.txt"}
    /\ pc' = "complete"
    /\ UNCHANGED <<fileOK, csv, df, afghanistan, monthly, case_fatality_rate,
                   cases_7day_avg, deaths_7day_avg, console, error>>

(* line 151 *)
Complete ==
    /\ pc = "complete"
    /\ console' = Append(console,
                         TextLine("Analysis complete. Visualizations saved as PNG files."))
    /\ pc' = "done"
    /\ UNCHANGED <<fileOK, csv, df, afghanistan, monthly, case_fatality_rate,
                   cases_7day_avg, deaths_7day_avg, report, files, error>>

Next ==
    \/ LoadData \/ LoadDataFails
    \/ Filter
    \/ ConvertDate \/ ConvertDateFails
    \/ SetIndex
    \/ FillMissing
    \/ Analysis1 \/ Analysis1Fails
    \/ Analysis2
    \/ Visualization1 \/ Visualization2 \/ Visualization3
    \/ Visualization4 \/ Visualization5
    \/ Analysis3
    \/ Visualization6
    \/ SaveResults
    \/ Complete

Spec == Init /\ [][Next]_vars
SpecMonthly == InitMonthly /\ [][Next]_vars
SpecRate == InitRate /\ [][Next]_vars
SpecDaily == InitDaily /\ [][Next]_vars

(* ---------------- type invariant ---------------- *)
Steps ==
    {"load", "filter", "to_datetime", "set_index", "fillna", "analysis1",
     "analysis2", "visualization1", "visualization2", "visualization3",
     "visualization4", "visualization5", "analysis3", "visualization6",
     "save_results", "complete", "done", "aborted"}

TypeOK ==
    /\ pc \in Steps
    /\ fileOK \in BOOLEAN
    /\ error \in {"none", "FileNotFoundError", "ValueError", "IndexError"}
    /\ Len(afghanistan) <= Len(csv)

(* ---------------- properties ---------------- *)
Computed(steps) == pc \in steps

AfterAnalysis1 ==
    {"analysis2", "visualization1", "visualization2", "visualization3",
     "visualization4", "visualization5", "analysis3", "visualization6",
     "save_results", "complete", "done"}

AfterAnalysis2 == AfterAnalysis1 \ {"analysis2"}

AfterVisualization4 ==
    {"visualization5", "analysis3", "visualization6", "save_results",
     "complete", "done"}

AfterAnalysis3 == {"visualization6", "save_results", "complete", "done"}

Present(v) == v # -1
ZeroFilled(v) == IF v = -1 THEN 0 ELSE v

RECURSIVE SumRange(_, _, _, _)
SumRange(rows, col, lo, hi) ==
    IF hi < lo THEN 0
    ELSE SumRange(rows, col, lo, hi - 1) + ZeroFilled(rows[hi][col])

Positions == 1..Len(afghanistan)
DatesWhere(P(_)) == {afghanistan[i].date : i \in {j \in Positions : P(afghanistan[j])}}
MinOf(S) == CHOOSE d \in S : \A e \in S : d <= e
MaxOf(S) == CHOOSE d \in S : \A e \in S : e <= d
RowAt(d) == afghanistan[CHOOSE i \in Positions : afghanistan[i].date = d]

(* ---- C1 ---- *)
FullWindowMean(avg, col) ==
    /\ Len(avg) = Len(afghanistan)
    /\ \A i \in Positions :
          IF i - 1 < 6 THEN avg[i] = FNan
          ELSE /\ avg[i].kind = "num"
               /\ avg[i].den > 0
               /\ avg[i].num * 7 = SumRange(afghanistan, col, i - 6, i) * avg[i].den

(* C1: once the rolling columns exist, cases_7day_avg and deaths_7day_avg  *)
(* are absent at every 0-indexed position below 6 and are, at every later  *)
(* position, the mean of the seven zero-filled values ending there, the    *)
(* window being counted in rows whatever the dates of the rows are.        *)
C1_RollingAverage ==
    Computed(AfterAnalysis3) =>
        /\ FullWindowMean(cases_7day_avg, "new_cases")
        /\ FullWindowMean(deaths_7day_avg, "new_deaths")

C1_Witness ==
    /\ pc = "done"
    /\ Len(afghanistan) >= 8
    /\ csv[2].new_cases = -1
    /\ afghanistan[8].date - afghanistan[7].date > 1
    /\ cases_7day_avg[6] = FNan
    /\ cases_7day_avg[7].kind = "num"
    /\ cases_7day_avg[8].kind = "num"
    /\ cases_7day_avg[8].num # cases_7day_avg[7].num

(* ---- C2 ---- *)
(* C2: once the case_fatality_rate column exists, every row whose          *)
(* cumulative cases are zero holds the not-a-number marker, whatever its   *)
(* cumulative deaths, and every row whose cumulative cases are non-zero    *)
(* holds cumulative deaths / cumulative cases * 100.                       *)
C2_FatalityUndefinedAtZero ==
    Computed(AfterVisualization4) =>
        \A i \in Positions :
            LET tc == afghanistan[i].total_cases
                td == afghanistan[i].total_deaths
                r == case_fatality_rate[i]
            IN /\ tc = 0 => r = FNan
               /\ (Present(tc) /\ tc # 0 /\ Present(td)) =>
                     (r.kind = "num" /\ r.num * tc = td * 100 * r.den)

(* ---- C3 ---- *)
ObservedMonths == {d \div DaysPerMonth : d \in DatesWhere(LAMBDA r : TRUE)}

(* C3: the monthly table has exactly one entry for each calendar month     *)
(* that holds an Observation, in chronological order, and no entry for a   *)
(* month without Observations.                                             *)
C3_OneGroupPerObservedMonth ==
    Computed(AfterAnalysis2) =>
        /\ {monthly[k].month : k \in 1..Len(monthly)} = ObservedMonths
        /\ \A k \in 1..(Len(monthly) - 1) : monthly[k].month < monthly[k + 1].month

(* ---- C4 ---- *)
(* C4: a run whose table has no row of the target country never ends in    *)
(* an index-out-of-range failure.                                          *)
C4_EmptySeriesReported ==
    (pc = "aborted" /\ fileOK /\ SelectSeq(csv, LAMBDA r : r.location = "Afghanistan") = << >>)
        => error # "IndexError"

(* ---- C5 ---- *)
(* C5: once the statistics are printed, the Series is in ascending date    *)
(* order and the printed first date is the minimum date of the Series.     *)
C5_FirstDateIsMinimum ==
    Computed(AfterAnalysis1) =>
        /\ \A i \in 1..(Len(afghanistan) - 1) :
              afghanistan[i].date < afghanistan[i + 1].date
        /\ console[3].on = Strftime(MinOf(DatesWhere(LAMBDA r : TRUE)))

(* ---- C6 ---- *)
PeakLine(line, col) ==
    LET m == MaxOf({afghanistan[i][col] : i \in Positions})
        first == MinOf({afghanistan[i].date : i \in {j \in Positions : afghanistan[j][col] = m}})
    IN line.val = FNum(m, 1) /\ line.on = Strftime(first)

(* C6: the printed and the written peak lines carry the maximum of         *)
(* new_cases (new_deaths) over the Series and the earliest date on which   *)
(* that maximum occurs.                                                    *)
C6_PeakIsEarliestMaximum ==
    /\ Computed(AfterAnalysis1) =>
          (PeakLine(console[6], "new_cases") /\ PeakLine(console[7], "new_deaths"))
    /\ Computed({"complete", "done"}) =>
          (PeakLine(report[6], "new_cases") /\ PeakLine(report[7], "new_deaths"))

(* ---- C7 ---- *)
ConsoleReport == SubSeq(console, 1, 7)

(* C7 as stated: the report printed to the console and the report written  *)
(* to covid_analysis_results.txt are the same lines in the same order.     *)
C7_ReportsIdentical == pc = "done" => ConsoleReport = report

(* C7: the console report and the file report agree, in the same order, on *)
(* the separator line and on the five statistics lines (first-case date,   *)
(* cumulative cases, cumulative deaths, peak daily cases and peak daily    *)
(* deaths with their dates); their header lines differ and the             *)
(* case-fatality line is written to the file only.                         *)
C7_StatisticsLinesIdentical ==
    pc = "done" =>
        /\ SubSeq(console, 2, 7) = SubSeq(report, 2, 7)
        /\ console[1] # report[1]
        /\ Len(report) = 8
        /\ report[8].text = "Current case fatality rate: "
        /\ \A k \in 1..Len(console) : console[k].text # report[8].text

C7_Witness ==
    /\ pc = "done"
    /\ Len(afghanistan) = 2
    /\ afghanistan[1].date > afghanistan[2].date
    /\ report[8].val = FNum(10000, 100)
    /\ report[6].val = FNum(1, 1)
    /\ report[7].val = FNum(0, 1)

(* ---- C8 ---- *)
RECURSIVE MonthlyTotal(_, _)
MonthlyTotal(col, k) ==
    IF k = 0 THEN 0 ELSE MonthlyTotal(col, k - 1) + monthly[k][col]

(* C8: the monthly new_cases sums add up to the sum of the zero-filled     *)
(* new_cases of the whole Series, and likewise for new_deaths.             *)
C8_MonthlySumsConserved ==
    Computed(AfterAnalysis2) =>
        /\ MonthlyTotal("new_cases", Len(monthly))
              = SumRange(afghanistan, "new_cases", 1, Len(afghanistan))
        /\ MonthlyTotal("new_deaths", Len(monthly))
              = SumRange(afghanistan, "new_deaths", 1, Len(afghanistan))

C8_Witness ==
    /\ pc = "done"
    /\ Len(afghanistan) = 2
    /\ afghanistan[1].date > afghanistan[2].date
    /\ Len(monthly) = 1
    /\ monthly[1].new_deaths = 2

(* ---- C9 ---- *)
InMonth(m) == DatesWhere(LAMBDA r : r.date \div DaysPerMonth = m)

LastObservationValue(m, col) ==
    IF InMonth(m) = {} THEN -1 ELSE RowAt(MaxOf(InMonth(m)))[col]

LastPresentValue(m, col) ==
    LET ds == DatesWhere(LAMBDA r : r.date \div DaysPerMonth = m /\ Present(r[col]))
    IN IF ds = {} THEN -1 ELSE RowAt(MaxOf(ds))[col]

(* C9 as stated: each monthly entry carries the cumulative cases and       *)
(* deaths of the chronologically last Observation of its month, absent     *)
(* when that Observation's value is absent.                                *)
C9_LastObservationTotals ==
    Computed(AfterAnalysis2) =>
        \A k \in 1..Len(monthly) :
            /\ monthly[k].total_cases = LastObservationValue(monthly[k].month, "total_cases")
            /\ monthly[k].total_deaths = LastObservationValue(monthly[k].month, "total_deaths")

(* C9: each monthly entry carries, for cumulative cases and for cumulative *)
(* deaths, the value of the chronologically last Observation of its month  *)
(* whose value is present, and is absent only when no Observation of the   *)
(* month has the value.                                                    *)
C9_LastPresentTotals ==
    Computed(AfterAnalysis2) =>
        \A k \in 1..Len(monthly) :
            /\ monthly[k].total_cases = LastPresentValue(monthly[k].month, "total_cases")
            /\ monthly[k].total_deaths = LastPresentValue(monthly[k].month, "total_deaths")

C9_Witness ==
    /\ pc = "done"
    /\ Len(monthly) = 1
    /\ Len(afghanistan) = 2
    /\ afghanistan[1].date < afghanistan[2].date
    /\ afghanistan[1].total_cases = 0
    /\ afghanistan[2].total_cases = -1
    /\ monthly[1].total_cases = 0

(* ---- C10 ---- *)
InputFatal ==
    \/ ~fileOK
    \/ \E i \in 1..Len(csv) : csv[i].location = "Afghanistan" /\ csv[i].date = -2

(* C10: in a run whose input file cannot be loaded or whose target-country *)
(* rows hold an unparsable date, nothing is ever printed, no metric column *)
(* or monthly table is computed, no file is written, and the run never     *)
(* gets past the date conversion.                                          *)
C10_FatalInputNoOutput ==
    InputFatal =>
        /\ console = << >>
        /\ report = << >>
        /\ files = {}
        /\ monthly = << >>
        /\ case_fatality_rate = << >>
        /\ cases_7day_avg = << >>
        /\ deaths_7day_avg = << >>
        /\ pc \in {"load", "filter", "to_datetime", "aborted"}

C10_Witness ==
    /\ pc = "aborted"
    /\ error = "ValueError"
    /\ Len(afghanistan) = 2
    /\ afghanistan[1].date # -2
    /\ afghanistan[2].date = -2
    /\ files = {}

====
